---- MODULE Spec2Model ----
(***************************************************************************)
(* Bananhopparen 3000: the simulation core of src/src/App.tsx.             *)
(*                                                                         *)
(* Units.  Horizontal quantities (x, widths, PLAYER_SPEED) are pixels.     *)
(* Vertical quantities (y, velocityY, heights, GRAVITY, JUMP_FORCE,        *)
(* scrollSpeed) are TENTHS of a pixel, so that GRAVITY = 0.8 and           *)
(* scrollSpeed = 5.5 are the integers 8 and 55.  The program computes in   *)
(* IEEE doubles; the integer model is exact for every comparison the       *)
(* program makes on the player (no jump sequence returns to exactly        *)
(* GROUND_Y before the clamp), and it abstracts rounding of 0.8 in the     *)
(* strict comparisons of checkCollision for an airborne player.            *)
(*                                                                         *)
(* React.  Every action is one event handler together with the render,     *)
(* commit and effects it causes.  Updater functions given to a state       *)
(* setter run during that render; playerRef.current is assigned by an      *)
(* effect, after the commit, so an updater that reads playerRef.current    *)
(* sees the player of the previous commit.  The game effect (the frame     *)
(* request and the spawn interval) re-runs in the commit that changes one  *)
(* of its dependencies: gameState, keys (a new object at every arrow-key   *)
(* event) or the tier.                                                     *)
(***************************************************************************)
EXTENDS Integers, Sequences, FiniteSets, TLC

\* ------------------------------------------------------------ constants
GAME_WIDTH == 400
GAME_HEIGHT == 6000
PLAYER_WIDTH == 40
PLAYER_HEIGHT == 400
PLAYER_SPEED == 5
JUMP_FORCE == 150
GRAVITY == 8
GROUND_Y == GAME_HEIGHT - 1000
OBJECT_WIDTH == 30
OBJECT_HEIGHT == 300
CANDY_POINTS == 10

Difficulty == {"easy", "medium", "hard", "extreme", "nightmare"}

\* mutant: scrollSpeed given per second (60 frames) and applied per tick
DIFFICULTY_SETTINGS_PerSecond ==
  [easy      |-> [scrollSpeed |-> 1200, spawnInterval |-> 1500, bananaChance |-> 3, maxBananaHits |-> 5],
   medium    |-> [scrollSpeed |-> 1800, spawnInterval |-> 1000, bananaChance |-> 4, maxBananaHits |-> 4],
   hard      |-> [scrollSpeed |-> 2400, spawnInterval |-> 800,  bananaChance |-> 5, maxBananaHits |-> 3],
   extreme   |-> [scrollSpeed |-> 3300, spawnInterval |-> 600,  bananaChance |-> 6, maxBananaHits |-> 2],
   nightmare |-> [scrollSpeed |-> 4200, spawnInterval |-> 400,  bananaChance |-> 7, maxBananaHits |-> 1]]

DIFFICULTY_SETTINGS ==
  [easy      |-> [scrollSpeed |-> 20, spawnInterval |-> 1500, bananaChance |-> 3, maxBananaHits |-> 5],
   medium    |-> [scrollSpeed |-> 30, spawnInterval |-> 1000, bananaChance |-> 4, maxBananaHits |-> 4],
   hard      |-> [scrollSpeed |-> 40, spawnInterval |-> 800,  bananaChance |-> 5, maxBananaHits |-> 3],
   extreme   |-> [scrollSpeed |-> 55, spawnInterval |-> 600,  bananaChance |-> 6, maxBananaHits |-> 2],
   nightmare |-> [scrollSpeed |-> 70, spawnInterval |-> 400,  bananaChance |-> 7, maxBananaHits |-> 1]]

\* ------------------------------------------------------------ bounds
\* Spec: timer and keyboard events in one run of the program
MaxEvents == 2
\* SpecObjects: spawns per session, and size of the live collection at a spawn
MaxSpawns == 5
MaxLive == 2
\* SpecPlayer: Space presses per session
MaxInputs == 3
\* the values Math.random() * (GAME_WIDTH - OBJECT_WIDTH) is drawn from
SpawnXs == {185}
\* SpecTimer: milliseconds by which the clock of the spawn interval advances
TimeStep == 100
\* SpecSpawn: spawns per session
MaxDrops == 2
\* SpecSpawn: the values of Math.random(), in thousandths; Math.random() is
\* in [0, 1).  They give x = 0 and x = 369 (the ends of the range), 185 (over
\* the player), 151 and 219 (the first and last x whose box overlaps a player
\* standing at x = 180) and 150 and 220 (the nearest that do not)
Randoms == {0, 408, 409, 500, 592, 595, 999}

\* ------------------------------------------------------------ state
VARIABLES gameState, difficulty, score, bananaHits, player, objects, keys,
          playerRef, objectIdCounter, gameLoopRef, spawnTimerRef,
          spawnElapsed, budget, last

vars == <<gameState, difficulty, score, bananaHits, player, objects, keys,
          playerRef, objectIdCounter, gameLoopRef, spawnTimerRef,
          spawnElapsed, budget, last>>

\* gameLoopRef: an animation frame is requested and not cancelled.
\* spawnTimerRef: the spawn interval is set and not cleared.
\* spawnElapsed: milliseconds since the interval was set or last fired.

currentSettings == DIFFICULTY_SETTINGS[difficulty]

InitialPlayer ==
  [x |-> GAME_WIDTH \div 2 - PLAYER_WIDTH \div 2,
   y |-> GROUND_Y,
   velocityY |-> 0,
   isJumping |-> FALSE,
   canDoubleJump |-> FALSE]

\* last is a history variable of the model, not of the program: the handler
\* that ran last, its argument, and the program state it ran in.
Snapshot ==
  [gameState |-> gameState, difficulty |-> difficulty, score |-> score,
   bananaHits |-> bananaHits, player |-> player, objects |-> objects,
   keys |-> keys, playerRef |-> playerRef,
   objectIdCounter |-> objectIdCounter]

Ran(op, arg) == [op |-> op, arg |-> arg, pre |-> Snapshot]

Init ==
  /\ gameState = "start"
  /\ difficulty = "medium"
  /\ score = 0
  /\ bananaHits = 0
  /\ player = InitialPlayer
  /\ objects = << >>
  /\ keys = [left |-> FALSE, right |-> FALSE]
  /\ playerRef = InitialPlayer
  /\ objectIdCounter = 0
  /\ gameLoopRef = FALSE
  /\ spawnTimerRef = FALSE
  /\ spawnElapsed = 0
  /\ budget = 0
  /\ last = Ran("init", "")

\* ------------------------------------------------------------ game effect
\* the effect with dependencies gameState, keys, currentSettings: its cleanup
\* cancels the requested frame and clears the interval, its body sets both
\* again only while playing
\* mutant: nothing is cancelled
GameEffect_NoCancel(gs) == [raf |-> TRUE, timer |-> TRUE]

GameEffect(gs) == [raf |-> gs = "playing", timer |-> gs = "playing"]

\* the commit of a handler that changed a dependency of the effect
EffectRuns(gs) ==
  /\ gameLoopRef' = GameEffect(gs).raf
  /\ spawnTimerRef' = GameEffect(gs).timer
  /\ spawnElapsed' = 0

EffectKept == UNCHANGED <<gameLoopRef, spawnTimerRef, spawnElapsed>>

\* ------------------------------------------------------------ session
\* mutant: startGame as in the version without a difficulty menu
\* (src/unnamed/part_000): it resets and enters playing itself
startGame_Resets ==
  /\ gameState' = "playing"
  /\ score' = 0
  /\ bananaHits' = 0
  /\ player' = InitialPlayer
  /\ objects' = << >>
  /\ objectIdCounter' = 0
  /\ playerRef' = player'
  /\ EffectRuns(gameState')
  /\ last' = Ran("startGame", "")
  /\ UNCHANGED <<difficulty, keys>>

startGame ==
  /\ gameState' = "difficulty"
  /\ EffectRuns(gameState')
  /\ last' = Ran("startGame", "")
  /\ UNCHANGED <<difficulty, score, bananaHits, player, objects, keys,
                 playerRef, objectIdCounter>>

\* "Tillbaka" in the difficulty menu
back ==
  /\ gameState = "difficulty"
  /\ gameState' = "start"
  /\ EffectRuns(gameState')
  /\ last' = Ran("back", "")
  /\ UNCHANGED <<difficulty, score, bananaHits, player, objects, keys,
                 playerRef, objectIdCounter>>

\* mutant: the player is not put back
selectDifficulty_KeepsPlayer(diff) ==
  /\ difficulty' = diff
  /\ gameState' = "playing"
  /\ score' = 0
  /\ bananaHits' = 0
  /\ objects' = << >>
  /\ objectIdCounter' = 0
  /\ EffectRuns(gameState')
  /\ last' = Ran("selectDifficulty", diff)
  /\ UNCHANGED <<keys, player, playerRef>>

selectDifficulty(diff) ==
  /\ difficulty' = diff
  /\ gameState' = "playing"
  /\ score' = 0
  /\ bananaHits' = 0
  /\ player' = InitialPlayer
  /\ objects' = << >>
  /\ objectIdCounter' = 0
  /\ playerRef' = player'
  /\ EffectRuns(gameState')
  /\ last' = Ran("selectDifficulty", diff)
  /\ UNCHANGED keys

\* the buttons exist only in the menu that renders them: "Starta Spel" in
\* the start menu and "Spela Igen" in the game-over menu, the five tier
\* buttons in the difficulty menu
clickStartGame == gameState \in {"start", "gameover"} /\ startGame

clickDifficulty(diff) == gameState = "difficulty" /\ selectDifficulty(diff)

\* ------------------------------------------------------------ spawner
NewObject(id, x, type) ==
  [id |-> id, x |-> x, y |-> GAME_HEIGHT,
   width |-> OBJECT_WIDTH, height |-> OBJECT_HEIGHT, type |-> type]

\* mutant: the new collection is built without the previous one
spawnObject_Overwrites(type, x) ==
  /\ objects' = <<NewObject(objectIdCounter, x, type)>>
  /\ objectIdCounter' = objectIdCounter + 1
  /\ last' = Ran("spawnObject", type)
  /\ UNCHANGED <<gameState, difficulty, score, bananaHits, player, keys,
                 playerRef, gameLoopRef, spawnTimerRef>>

\* mutant: the id is the position in the live collection
spawnObject_IdFromLength(type, x) ==
  /\ objects' = Append(objects, NewObject(Len(objects), x, type))
  /\ objectIdCounter' = objectIdCounter + 1
  /\ last' = Ran("spawnObject", type)
  /\ UNCHANGED <<gameState, difficulty, score, bananaHits, player, keys,
                 playerRef, gameLoopRef, spawnTimerRef>>

\* mutant: the object width is not taken off the range
SpawnX_FullWidth(random) == (random * GAME_WIDTH) \div 1000

\* x = Math.random() * (GAME_WIDTH - OBJECT_WIDTH), random in thousandths
SpawnX(random) == (random * (GAME_WIDTH - OBJECT_WIDTH)) \div 1000

\* type and x stand for the two Math.random() draws
spawnObject(type, x) ==
  /\ objects' = Append(objects, NewObject(objectIdCounter, x, type))
  /\ objectIdCounter' = objectIdCounter + 1
  /\ last' = Ran("spawnObject", type)
  /\ UNCHANGED <<gameState, difficulty, score, bananaHits, player, keys,
                 playerRef, gameLoopRef, spawnTimerRef>>

\* the setInterval callback: it fires only while the interval is set, and
\* the next period starts
spawnTimerFires(type, x) ==
  /\ spawnTimerRef
  /\ spawnObject(type, x)
  /\ spawnElapsed' = 0

\* time passing on the clock of the spawn interval, until it is due
timePasses ==
  /\ spawnTimerRef
  /\ spawnElapsed < currentSettings.spawnInterval
  /\ spawnElapsed' = spawnElapsed + TimeStep
  /\ UNCHANGED <<gameState, difficulty, score, bananaHits, player, objects,
                 keys, playerRef, objectIdCounter, gameLoopRef, spawnTimerRef,
                 last>>

\* the interval is due
spawnDue == spawnElapsed >= currentSettings.spawnInterval

\* ------------------------------------------------------------ keyboard
\* mutant: the double jump is never used up
JumpUpdater_Unlimited(prev) ==
  IF ~prev.isJumping
    THEN [prev EXCEPT !.velocityY = -JUMP_FORCE,
                      !.isJumping = TRUE,
                      !.canDoubleJump = TRUE]
    ELSE IF prev.canDoubleJump
      THEN [prev EXCEPT !.velocityY = -JUMP_FORCE]
      ELSE prev

\* the setPlayer updater of handleKeyDown (Space)
JumpUpdater(prev) ==
  IF ~prev.isJumping
    THEN [prev EXCEPT !.velocityY = -JUMP_FORCE,
                      !.isJumping = TRUE,
                      !.canDoubleJump = TRUE]
    ELSE IF prev.canDoubleJump
      THEN [prev EXCEPT !.velocityY = -JUMP_FORCE,
                        !.canDoubleJump = FALSE]
      ELSE prev

\* mutant: Space is not tested against gameState
SpaceAccepted_Always == TRUE

\* the condition of handleKeyDown under which Space reaches the updater
SpaceAccepted == gameState = "playing"

keyDownSpace ==
  /\ player' = IF SpaceAccepted THEN JumpUpdater(player) ELSE player
  /\ playerRef' = player'
  /\ EffectKept
  /\ last' = Ran("keyDownSpace", "")
  /\ UNCHANGED <<gameState, difficulty, score, bananaHits, objects, keys,
                 objectIdCounter>>

\* handleKeyDown / handleKeyUp for ArrowLeft and ArrowRight (any gameState)
keyArrow(side, down) ==
  /\ keys' = [keys EXCEPT ![side] = down]
  /\ EffectRuns(gameState)
  /\ last' = Ran(IF down THEN "keyDown" ELSE "keyUp", side)
  /\ UNCHANGED <<gameState, difficulty, score, bananaHits, player, objects,
                 playerRef, objectIdCounter>>

\* ------------------------------------------------------------ game loop
\* the setPlayer updater of gameLoop
\* mutant: left gives way to right
MoveLeft_UnlessRight(p, k) ==
  IF k.left /\ ~k.right /\ p.x > 0 THEN [p EXCEPT !.x = @ - PLAYER_SPEED] ELSE p

\* mutant: no left wall
MoveLeft_NoWall(p, k) ==
  IF k.left THEN [p EXCEPT !.x = @ - PLAYER_SPEED] ELSE p

MoveLeft(p, k) ==
  IF k.left /\ p.x > 0 THEN [p EXCEPT !.x = @ - PLAYER_SPEED] ELSE p

MoveRight(p, k) ==
  IF k.right /\ p.x < GAME_WIDTH - PLAYER_WIDTH
    THEN [p EXCEPT !.x = @ + PLAYER_SPEED] ELSE p

\* mutant: the velocity is applied without adding GRAVITY to it
Gravity_NotApplied(p) == [p EXCEPT !.y = p.y + p.velocityY]

Gravity(p) ==
  [p EXCEPT !.velocityY = p.velocityY + GRAVITY,
            !.y = p.y + (p.velocityY + GRAVITY)]

\* mutant: landing does not clear canDoubleJump
GroundCollision_KeepsDoubleJump(p) ==
  IF p.y >= GROUND_Y
    THEN [p EXCEPT !.y = GROUND_Y, !.velocityY = 0, !.isJumping = FALSE]
    ELSE p

\* mutant: landing keeps the falling velocity
GroundCollision_KeepsVelocity(p) ==
  IF p.y >= GROUND_Y
    THEN [p EXCEPT !.y = GROUND_Y,
                   !.isJumping = FALSE, !.canDoubleJump = FALSE]
    ELSE p

GroundCollision(p) ==
  IF p.y >= GROUND_Y
    THEN [p EXCEPT !.y = GROUND_Y, !.velocityY = 0,
                   !.isJumping = FALSE, !.canDoubleJump = FALSE]
    ELSE p

PlayerUpdater(prevPlayer, k) ==
  GroundCollision(Gravity(MoveRight(MoveLeft(prevPlayer, k), k)))

\* the setObjects updater of gameLoop
checkCollision(obj, p) ==
  /\ p.x < obj.x + obj.width
  /\ p.x + PLAYER_WIDTH > obj.x
  /\ p.y < obj.y + obj.height
  /\ p.y + PLAYER_HEIGHT > obj.y

\* mutant: the copy keeps the old y
Moved_Still(obj, speed) == obj

Moved(obj, speed) == [obj EXCEPT !.y = obj.y - speed]

\* mutant: the off-screen test strict
OffScreen_Strict(movedObj) == movedObj.y < -OBJECT_HEIGHT

OffScreen(movedObj) == movedObj.y <= -OBJECT_HEIGHT

\* what the forEach body does with one object: "off" (skipped), "hit"
\* (collided, not kept) or "keep"
Outcome(obj, p, speed) ==
  IF OffScreen(Moved(obj, speed)) THEN "off"
  ELSE IF checkCollision(Moved(obj, speed), p) THEN "hit"
  ELSE "keep"

\* mutant: a collided object is pushed to objectsToKeep as well
objectsToKeep_KeepsCollided(prevObjects, p, speed) ==
  LET kept == SelectSeq(prevObjects, LAMBDA o : Outcome(o, p, speed) # "off")
  IN  [i \in 1..Len(kept) |-> Moved(kept[i], speed)]

objectsToKeep(prevObjects, p, speed) ==
  LET kept == SelectSeq(prevObjects, LAMBDA o : Outcome(o, p, speed) = "keep")
  IN  [i \in 1..Len(kept) |-> Moved(kept[i], speed)]

\* the objects that collided, in forEach order: one queued updater each
Collided(prevObjects, p, speed) ==
  SelectSeq(prevObjects, LAMBDA o : Outcome(o, p, speed) = "hit")

CountType(objs, type) ==
  Cardinality({i \in 1..Len(objs) : objs[i].type = type})

\* mutant: the threshold test off by one
HitsReached_Strict(newHits, maxBananaHits) == newHits > maxBananaHits

\* mutant: the threshold test one hit early
HitsReached_Early(newHits, maxBananaHits) == newHits >= maxBananaHits - 1

\* the setBananaHits updater: newHits, and whether it calls
\* setGameState('gameover')
HitsReached(newHits, maxBananaHits) == newHits >= maxBananaHits

\* n queued setBananaHits updaters applied in turn to prev
RECURSIVE BananaUpdaters(_, _, _)
BananaUpdaters(n, prev, maxBananaHits) ==
  IF n = 0 THEN [hits |-> prev, over |-> FALSE]
  ELSE LET rest == BananaUpdaters(n - 1, prev, maxBananaHits)
           newHits == rest.hits + 1
       IN  [hits |-> newHits,
            over |-> rest.over \/ HitsReached(newHits, maxBananaHits)]

\* mutant: a candy worth one point
ScoreUpdater_One(prev) == prev + 1

\* the setScore updater
ScoreUpdater(prev) == prev + CANDY_POINTS

RECURSIVE ScoreUpdaters(_, _)
ScoreUpdaters(n, prev) ==
  IF n = 0 THEN prev ELSE ScoreUpdater(ScoreUpdaters(n - 1, prev))

\* the body of gameLoop and the render it causes; it requests the next
\* frame itself, and the effect runs if the render ended the session
gameLoop ==
  /\ LET speed == currentSettings.scrollSpeed
         hit == Collided(objects, playerRef, speed)
         nb == CountType(hit, "banana")
         nc == CountType(hit, "candy")
         res == BananaUpdaters(nb, bananaHits, currentSettings.maxBananaHits)
     IN  /\ player' = PlayerUpdater(player, keys)
         /\ objects' = objectsToKeep(objects, playerRef, speed)
         /\ bananaHits' = res.hits
         /\ score' = ScoreUpdaters(nc, score)
         /\ gameState' = IF res.over THEN "gameover" ELSE gameState
         /\ last' = Ran("gameLoop", "")
  /\ playerRef' = player'
  /\ IF gameState' # gameState
       THEN EffectRuns(gameState')
       ELSE gameLoopRef' = TRUE /\ UNCHANGED <<spawnTimerRef, spawnElapsed>>
  /\ UNCHANGED <<difficulty, keys, objectIdCounter>>

\* the requestAnimationFrame callback: it runs only if not cancelled
animationFrame == gameLoopRef /\ gameLoop

\* ------------------------------------------------------------ environments
\* budget is a counter of the model, not of the program: it bounds the
\* events the environment (timer, keyboard) delivers.
Quiet(A) == A /\ UNCHANGED budget
Spend(A, max) == budget < max /\ A /\ budget' = budget + 1

Types == {"banana", "candy"}
Sides == {"left", "right"}

\* the whole program: every handler, at most MaxEvents timer and keyboard
\* events in a run, a spawn arriving only while no object is live
Next ==
  \/ Quiet(clickStartGame)
  \/ Quiet(back)
  \/ \E diff \in Difficulty : Quiet(clickDifficulty(diff))
  \/ \E type \in Types, x \in SpawnXs :
       objects = << >> /\ Spend(spawnTimerFires(type, x), MaxEvents)
  \/ Spend(keyDownSpace, MaxEvents)
  \/ \E side \in Sides, down \in BOOLEAN : Spend(keyArrow(side, down), MaxEvents)
  \/ Quiet(animationFrame)

Spec == Init /\ [][Next]_vars

\* no keyboard: sessions of up to MaxSpawns spawns, a spawn arriving while
\* fewer than MaxLive objects are live
NextObjects ==
  \/ Quiet(clickStartGame)
  \/ Quiet(back)
  \/ \E diff \in Difficulty : Quiet(clickDifficulty(diff))
  \/ \E type \in Types, x \in SpawnXs :
       /\ objectIdCounter < MaxSpawns
       /\ Len(objects) < MaxLive
       /\ Quiet(spawnTimerFires(type, x))
  \/ Quiet(animationFrame)

SpecObjects == Init /\ [][NextObjects]_vars

\* no spawns, no arrow keys: sessions of up to MaxInputs Space presses
NextPlayer ==
  \/ Quiet(clickStartGame)
  \/ Quiet(back)
  \/ \E diff \in Difficulty : clickDifficulty(diff) /\ budget' = 0
  \/ Spend(keyDownSpace, MaxInputs)
  \/ Quiet(animationFrame)

SpecPlayer == Init /\ [][NextPlayer]_vars

\* the spawn interval on its clock, with the arrow keys and no frames: a
\* spawn fires when the interval is due, while fewer than MaxLive objects
\* are live.  Time passes, and a due interval fires.
timerFires ==
  \E type \in Types, x \in SpawnXs :
    /\ Len(objects) < MaxLive
    /\ spawnDue
    /\ Quiet(spawnTimerFires(type, x))

NextTimer ==
  \/ Quiet(clickStartGame)
  \/ Quiet(back)
  \/ \E diff \in Difficulty : Quiet(clickDifficulty(diff))
  \/ \E side \in Sides, down \in BOOLEAN : Quiet(keyArrow(side, down))
  \/ Quiet(timePasses)
  \/ timerFires

SpecTimer ==
  /\ Init
  /\ [][NextTimer]_vars
  /\ WF_vars(Quiet(timePasses))
  /\ WF_vars(timerFires)

\* one object at a time, at most MaxDrops per session, at any x of the
\* range; no keyboard while playing, so the player stands where the session
\* put it; Space may be pressed in the menus.  Frames keep coming while they
\* are requested.
NextSpawn ==
  \/ Quiet(clickStartGame)
  \/ Quiet(back)
  \/ \E diff \in Difficulty : Quiet(clickDifficulty(diff))
  \/ \E type \in Types, random \in Randoms :
       /\ objects = << >>
       /\ objectIdCounter < MaxDrops
       /\ Quiet(spawnTimerFires(type, SpawnX(random)))
  \/ gameState # "playing" /\ Quiet(keyDownSpace)
  \/ Quiet(animationFrame)

SpecSpawn ==
  /\ Init
  /\ [][NextSpawn]_vars
  /\ WF_vars(Quiet(animationFrame))

\* ------------------------------------------------------------ properties
\* The step that led to the current state: last.pre is the state it started
\* in, the variables are the state it ended in.
Pre == last.pre
PreSettings == DIFFICULTY_SETTINGS[Pre.difficulty]
Ticked == last.op = "gameLoop"

\* the objects of the previous state that the tick moved, did not skip as
\* off screen, and found overlapping the player position it tested
PreOverlapping(type) ==
  {i \in 1..Len(Pre.objects) :
     LET m == [Pre.objects[i] EXCEPT !.y = @ - PreSettings.scrollSpeed]
     IN  /\ Pre.objects[i].type = type
         /\ m.y > -OBJECT_HEIGHT
         /\ Pre.playerRef.x < m.x + OBJECT_WIDTH
         /\ Pre.playerRef.x + PLAYER_WIDTH > m.x
         /\ Pre.playerRef.y < m.y + OBJECT_HEIGHT
         /\ Pre.playerRef.y + PLAYER_HEIGHT > m.y}

\* C1: a step taken in a Playing session leaves the session Playing as long
\* as bananaHits is still below the tier's maxBananaHits, and a tick that
\* brings bananaHits from below the threshold to exactly the threshold ends
\* in gameover.
C1_GameOverExactlyAtMax ==
  Pre.gameState = "playing" =>
    /\ bananaHits < PreSettings.maxBananaHits => gameState = "playing"
    /\ (Pre.bananaHits < PreSettings.maxBananaHits
        /\ bananaHits = PreSettings.maxBananaHits) => gameState = "gameover"

\* the fifth hit of an easy session ended it
C1_Witness ==
  /\ Ticked
  /\ difficulty = "easy"
  /\ Pre.bananaHits = 4
  /\ bananaHits = 5
  /\ gameState = "gameover"

\* C2 (as claimed): bananaHits never exceeds the tier's maxBananaHits.
C2_HitsNeverExceedMax ==
  gameState \in {"playing", "gameover"} =>
    bananaHits <= currentSettings.maxBananaHits

\* C3: in a tick of a Playing session every overlapping candy adds exactly
\* 10 to score and every overlapping banana exactly 1 to bananaHits; with no
\* banana overlapping the session stays Playing; and no other handler
\* (keyboard, spawn) changes score or bananaHits.
C3_OverlapEffects ==
  Pre.gameState = "playing" =>
    IF Ticked
      THEN /\ score = Pre.score + 10 * Cardinality(PreOverlapping("candy"))
           /\ bananaHits = Pre.bananaHits + Cardinality(PreOverlapping("banana"))
           /\ PreOverlapping("banana") = {} => gameState = "playing"
      ELSE /\ score = Pre.score
           /\ bananaHits = Pre.bananaHits
           /\ gameState = "playing"

\* a tick in which one candy overlapped the player, who was in the air
C3_Witness ==
  /\ Ticked
  /\ Cardinality(PreOverlapping("candy")) = 1
  /\ Pre.player.y < GROUND_Y
  /\ score = Pre.score + 10
  /\ bananaHits = Pre.bananaHits
  /\ gameState = "playing"

\* C4: player x is always within 0 .. GAME_WIDTH - PLAYER_WIDTH.
C4_PlayerXInBounds ==
  /\ 0 <= player.x
  /\ player.x <= GAME_WIDTH - PLAYER_WIDTH

\* a tick with the left key held while the player stood at the left wall
C4_Witness ==
  /\ Ticked
  /\ Pre.keys.left
  /\ Pre.player.x = 0
  /\ player.x = 0

\* C5: player y never exceeds GROUND_Y, and a tick whose integrated y
\* reaches or passes GROUND_Y ends with y = GROUND_Y, velocityY = 0 and the
\* player grounded with no double jump.
C5_GroundClamp ==
  /\ player.y <= GROUND_Y
  /\ (Ticked /\ Pre.player.y + Pre.player.velocityY + GRAVITY >= GROUND_Y) =>
       /\ player.y = GROUND_Y
       /\ player.velocityY = 0
       /\ ~player.isJumping
       /\ ~player.canDoubleJump

\* a tick in which an airborne, falling player landed
C5_Witness ==
  /\ Ticked
  /\ Pre.player.isJumping
  /\ Pre.player.y < GROUND_Y
  /\ Pre.player.velocityY > 0
  /\ player.y = GROUND_Y
  /\ player.velocityY = 0
  /\ ~player.isJumping

\* C6: a Space press in Playing: from the grounded player it sets velocityY
\* to -JUMP_FORCE and makes the player airborne with the double jump
\* available; from an airborne player with the double jump available it sets
\* velocityY to -JUMP_FORCE again and uses the double jump up; from an
\* airborne player without it, it changes nothing.  A tick that does not land
\* the player neither gives the double jump back nor uses it up.
Grounded(p) == p.y = GROUND_Y /\ p.velocityY = 0

C6_DoubleJump ==
  /\ (last.op = "keyDownSpace" /\ Pre.gameState = "playing") =>
       IF Grounded(Pre.player)
         THEN player = [Pre.player EXCEPT !.velocityY = -JUMP_FORCE,
                                          !.isJumping = TRUE,
                                          !.canDoubleJump = TRUE]
       ELSE IF Pre.player.canDoubleJump
         THEN /\ player = [Pre.player EXCEPT !.velocityY = -JUMP_FORCE,
                                             !.canDoubleJump = FALSE]
              /\ player.isJumping
       ELSE player = Pre.player
  /\ (Ticked /\ player.y < GROUND_Y) =>
       /\ player.isJumping
       /\ player.canDoubleJump = Pre.player.canDoubleJump

\* the third Space press of a flight, in mid-air, changed nothing
C6_Witness ==
  /\ last.op = "keyDownSpace"
  /\ budget = 3
  /\ Pre.player.isJumping
  /\ ~Pre.player.canDoubleJump
  /\ Pre.player.y < GROUND_Y
  /\ player = Pre.player

\* C7: an object whose moved y is <= -OBJECT_HEIGHT is gone after the tick
\* and contributes nothing: score and bananaHits change only by the objects
\* that are still on screen and overlap the player.
PreOff ==
  {i \in 1..Len(Pre.objects) :
     Pre.objects[i].y - PreSettings.scrollSpeed <= -OBJECT_HEIGHT}

C7_OffScreenDiscard ==
  Ticked =>
    /\ \A j \in 1..Len(objects) : objects[j].y > -OBJECT_HEIGHT
    /\ \A i \in PreOff : \A j \in 1..Len(objects) :
         objects[j].id # Pre.objects[i].id
    /\ PreOff # {} =>
         /\ score = Pre.score + 10 * Cardinality(PreOverlapping("candy") \ PreOff)
         /\ bananaHits =
              Pre.bananaHits + Cardinality(PreOverlapping("banana") \ PreOff)

\* a tick discarded an object that had scrolled off screen
C7_Witness ==
  /\ Ticked
  /\ PreOff # {}
  /\ Len(objects) < Len(Pre.objects)
  /\ score = Pre.score
  /\ bananaHits = Pre.bananaHits

\* C8: the session enters Playing only by selectDifficulty, and then score
\* and bananaHits are 0, the player is centred on the ground at rest with
\* both jump flags off, the collection is empty and the tier is the chosen
\* one.
C8_EnterPlayingResets ==
  (gameState = "playing" /\ Pre.gameState # "playing") =>
    /\ last.op = "selectDifficulty"
    /\ difficulty = last.arg
    /\ score = 0
    /\ bananaHits = 0
    /\ player = [x |-> GAME_WIDTH \div 2 - PLAYER_WIDTH \div 2, y |-> GROUND_Y,
                 velocityY |-> 0, isJumping |-> FALSE, canDoubleJump |-> FALSE]
    /\ objects = << >>

\* a tier was chosen after a session that ended with hits and the player in
\* the air, and the tier changed
C8_Witness ==
  /\ last.op = "selectDifficulty"
  /\ Pre.bananaHits > 0
  /\ Pre.player.y < GROUND_Y
  /\ Pre.difficulty # difficulty
  /\ gameState = "playing"

\* C9 (as claimed): the restart issued in gameover resets score, bananaHits
\* and the player and empties the collection.
C9_RestartResets ==
  (last.op = "startGame" /\ Pre.gameState = "gameover") =>
    /\ score = 0
    /\ bananaHits = 0
    /\ player = InitialPlayer
    /\ objects = << >>

\* C9 (amended): the restart issued in gameover only opens the difficulty
\* menu and leaves score, bananaHits, player and collection as the finished
\* session left them; the tier choice that follows resets them, whatever
\* they were.
C9_RestartThenChooseResets ==
  /\ (last.op = "startGame" /\ Pre.gameState = "gameover") =>
       /\ gameState = "difficulty"
       /\ score = Pre.score
       /\ bananaHits = Pre.bananaHits
       /\ player = Pre.player
       /\ objects = Pre.objects
  /\ (last.op = "selectDifficulty" /\ Pre.bananaHits > 0) =>
       /\ score = 0
       /\ bananaHits = 0
       /\ player = InitialPlayer
       /\ objects = << >>

\* the tier choice after a finished session that left a score, hits and a
\* live object behind
C9_Witness ==
  /\ last.op = "selectDifficulty"
  /\ Pre.score > 0
  /\ Pre.bananaHits > 0
  /\ Pre.objects # << >>
  /\ score = 0

\* C10 (as claimed): gameState changes only along start -> difficulty,
\* difficulty -> playing, playing -> gameover, gameover -> difficulty and
\* gameover -> start.
ClaimedEdges ==
  {<<"start", "difficulty">>, <<"difficulty", "playing">>,
   <<"playing", "gameover">>, <<"gameover", "difficulty">>,
   <<"gameover", "start">>}

C10_OnlyClaimedEdges ==
  gameState # Pre.gameState => <<Pre.gameState, gameState>> \in ClaimedEdges

\* C10 (amended): gameState changes only along the claimed edges and
\* difficulty -> start (the back button), each by its own trigger: the
\* menus by their buttons, playing -> gameover by a tick that leaves
\* bananaHits at or above the tier's maxBananaHits.
C10_EdgesWithBack ==
  gameState # Pre.gameState =>
    /\ <<Pre.gameState, gameState>> \in
         ClaimedEdges \cup {<<"difficulty", "start">>}
    /\ gameState = "difficulty" => last.op = "startGame"
    /\ gameState = "start" => last.op = "back"
    /\ gameState = "playing" => last.op = "selectDifficulty"
    /\ gameState = "gameover" =>
         /\ Ticked
         /\ bananaHits >= PreSettings.maxBananaHits
         /\ Pre.bananaHits < PreSettings.maxBananaHits

\* the back button taken in the difficulty menu after a finished session
C10_Witness ==
  /\ last.op = "back"
  /\ Pre.gameState = "difficulty"
  /\ gameState = "start"
  /\ bananaHits > 0

\* C11: outside Playing no frame is requested and no spawn interval is set,
\* so every callback that runs in a session was scheduled in that session;
\* a step taken outside Playing is never a tick or a spawn, and unless it is
\* the tier choice it leaves objects, score, bananaHits and player alone.
C11_NoStaleCallbacks ==
  /\ gameState # "playing" => (~gameLoopRef /\ ~spawnTimerRef)
  /\ Pre.gameState # "playing" =>
       /\ last.op \notin {"gameLoop", "spawnObject"}
       /\ last.op # "selectDifficulty" =>
            /\ objects = Pre.objects
            /\ score = Pre.score
            /\ bananaHits = Pre.bananaHits
            /\ player = Pre.player

\* the menu was opened again after a session that ended with an object
\* still falling, and frame request and interval stayed cancelled
C11_Witness ==
  /\ last.op = "startGame"
  /\ Pre.gameState = "gameover"
  /\ objects # << >>
  /\ objects = Pre.objects
  /\ ~gameLoopRef
  /\ ~spawnTimerRef

\* C12: a Space press while the session is not Playing (start, difficulty
\* or gameover) leaves player, playerRef, score, bananaHits, objects, keys,
\* the tier, the id counter and gameState as they were.
C12_JumpIgnoredOutsidePlaying ==
  (last.op = "keyDownSpace" /\ Pre.gameState # "playing") => Snapshot = Pre

\* Space was pressed in the game-over menu of a session lost to a banana
C12_Witness ==
  /\ last.op = "keyDownSpace"
  /\ Pre.gameState = "gameover"
  /\ Pre.bananaHits > 0
  /\ player = Pre.player
  /\ gameState = "gameover"

\* C14 (as claimed): the game is lost when 3 bananas have been hit: a
\* session is in gameover only with bananaHits at 3 or more, and a step of a
\* Playing session that leaves bananaHits at 3 or more ends it.
C14_LostAtThreeBananas ==
  /\ gameState = "gameover" => bananaHits >= 3
  /\ (Pre.gameState = "playing" /\ bananaHits >= 3) => gameState = "gameover"

\* C15 (as claimed): while the session stays Playing a first object is
\* eventually spawned, whatever arrow-key events arrive.
C15_SpawnEventually ==
  (gameState = "playing" /\ objectIdCounter = 0) ~> (objectIdCounter > 0)

\* C16: a spawn gives the new object the id objectIdCounter had, which is
\* greater than the id of every live object, and adds one to the counter;
\* within a session no other step changes the counter; so the ids of a
\* session are 0, 1, 2, .. in spawn order, the live ids are increasing along
\* the collection and all below the counter.
C16_IdsIncrease ==
  /\ \A i \in 1..Len(objects) : objects[i].id < objectIdCounter
  /\ \A i, j \in 1..Len(objects) : i < j => objects[i].id < objects[j].id
  /\ last.op = "spawnObject" =>
       /\ objects[Len(objects)].id = Pre.objectIdCounter
       /\ objectIdCounter = Pre.objectIdCounter + 1
       /\ \A i \in 1..Len(Pre.objects) :
            Pre.objects[i].id < objects[Len(objects)].id
  /\ last.op \notin {"spawnObject", "selectDifficulty", "init"} =>
       objectIdCounter = Pre.objectIdCounter

\* a spawn while an earlier object was live and the first ones were gone
C16_Witness ==
  /\ last.op = "spawnObject"
  /\ Len(Pre.objects) >= 1
  /\ Pre.objects[1].id > 0
  /\ objects[Len(objects)].id = Pre.objectIdCounter

\* C17: a spawn appends exactly one new object, at y = GAME_HEIGHT, and
\* keeps every object that was live; between a spawn and the next tick no
\* other handler touches the collection; and the tick accounts for every
\* object it found: each is skipped as off screen, consumed by an overlap,
\* or kept once, moved by scrollSpeed.
C17_SpawnsNotLost ==
  /\ last.op = "spawnObject" =>
       /\ Len(objects) = Len(Pre.objects) + 1
       /\ SubSeq(objects, 1, Len(Pre.objects)) = Pre.objects
       /\ objects[Len(objects)].y = GAME_HEIGHT
       /\ objects[Len(objects)].type = last.arg
  /\ (Pre.gameState = "playing" /\ last.op \notin {"spawnObject", "gameLoop"}) =>
       objects = Pre.objects
  /\ Ticked =>
       LET gone == PreOff \cup PreOverlapping("banana") \cup PreOverlapping("candy")
       IN  /\ Len(objects) = Len(Pre.objects) - Cardinality(gone)
           /\ \A i \in (1..Len(Pre.objects)) \ gone :
                \E j \in 1..Len(objects) :
                  objects[j] =
                    [Pre.objects[i] EXCEPT !.y = @ - PreSettings.scrollSpeed]

\* a tick that found two objects spawned since the tick before it, and
\* moved both
C17_Witness ==
  /\ Ticked
  /\ Len(Pre.objects) = 2
  /\ Pre.objects[1].y = GAME_HEIGHT
  /\ Pre.objects[2].y = GAME_HEIGHT
  /\ Len(objects) = 2
  /\ objects[1].y = GAME_HEIGHT - PreSettings.scrollSpeed
  /\ objects[2].y = GAME_HEIGHT - PreSettings.scrollSpeed

\* C18 (as claimed): a tick with both arrow keys held moves the player
\* right by PLAYER_SPEED, unless it is at the right wall.
C18_BothKeysMoveRight ==
  (Ticked /\ Pre.keys.left /\ Pre.keys.right) =>
    player.x = IF Pre.player.x < GAME_WIDTH - PLAYER_WIDTH
                 THEN Pre.player.x + PLAYER_SPEED
                 ELSE Pre.player.x

\* C18 (amended): a tick with both arrow keys held applies left and then
\* right to the same x, each with its own wall test, and the two cancel: x is
\* unchanged, except at the left wall (x = 0), where left does not apply and
\* x becomes PLAYER_SPEED.
C18_BothKeysCancel ==
  (Ticked /\ Pre.keys.left /\ Pre.keys.right) =>
    player.x = IF Pre.player.x = 0 THEN PLAYER_SPEED ELSE Pre.player.x

\* a tick with both keys held left the player, away from the walls, in place
C18_Witness ==
  /\ Ticked
  /\ Pre.keys.left
  /\ Pre.keys.right
  /\ Pre.player.x > 0
  /\ Pre.player.x < GAME_WIDTH - PLAYER_WIDTH
  /\ player.x = Pre.player.x

\* C19: after a tick no object that overlapped the player in it is still
\* live, and the effects of the tick are exactly one per object it consumed:
\* score grew by 10 for each candy and bananaHits by 1 for each banana that
\* was on screen and is gone, so an object still live had no effect.  With
\* ids never given twice, an id causes at most one effect.
PreConsumed(type) ==
  {i \in 1..Len(Pre.objects) :
     /\ Pre.objects[i].type = type
     /\ i \notin PreOff
     /\ \A j \in 1..Len(objects) : objects[j].id # Pre.objects[i].id}

C19_ConsumedOnce ==
  Ticked =>
    /\ \A i \in PreOverlapping("banana") \cup PreOverlapping("candy") :
         \A j \in 1..Len(objects) : objects[j].id # Pre.objects[i].id
    /\ score = Pre.score + 10 * Cardinality(PreConsumed("candy"))
    /\ bananaHits = Pre.bananaHits + Cardinality(PreConsumed("banana"))

\* a tick consumed a banana and kept another object, and the session went on
C19_Witness ==
  /\ Ticked
  /\ Cardinality(PreOverlapping("banana")) = 1
  /\ PreOverlapping("candy") = {}
  /\ Len(Pre.objects) = 2
  /\ Len(objects) = 1
  /\ bananaHits = Pre.bananaHits + 1
  /\ score = Pre.score
  /\ gameState = "playing"

\* C20 (as claimed): in a tick an on-screen object is consumed exactly when
\* its moved box overlaps the player as that same tick's integrator step
\* left it.
C20_OverlapAgainstTickPlayer ==
  Ticked =>
    \A i \in (1..Len(Pre.objects)) \ PreOff :
      (\A j \in 1..Len(objects) : objects[j].id # Pre.objects[i].id)
        <=> checkCollision(Moved(Pre.objects[i], PreSettings.scrollSpeed), player)

\* C21: an object is spawned with 0 <= x <= GAME_WIDTH - OBJECT_WIDTH and
\* y = GAME_HEIGHT; a tick keeps the x of every object it keeps and moves its
\* y by exactly the tier's scrollSpeed; no other handler of a Playing session
\* touches an object; and every live object has
\* -OBJECT_HEIGHT < y <= GAME_HEIGHT.
C21_ObjectPositions ==
  /\ \A j \in 1..Len(objects) :
       /\ 0 <= objects[j].x
       /\ objects[j].x <= GAME_WIDTH - OBJECT_WIDTH
       /\ -OBJECT_HEIGHT < objects[j].y
       /\ objects[j].y <= GAME_HEIGHT
  /\ last.op = "spawnObject" => objects[Len(objects)].y = GAME_HEIGHT
  /\ Ticked =>
       \A j \in 1..Len(objects) : \E i \in 1..Len(Pre.objects) :
         /\ objects[j].id = Pre.objects[i].id
         /\ objects[j].x = Pre.objects[i].x
         /\ objects[j].y = Pre.objects[i].y - PreSettings.scrollSpeed
  /\ (Pre.gameState = "playing" /\ last.op \notin {"spawnObject", "gameLoop"}) =>
       objects = Pre.objects

\* an object spawned at the right end of the range is still live, moved up
\* to the top edge of the game area
C21_Witness ==
  /\ Ticked
  /\ Len(objects) = 1
  /\ objects[1].x = 369
  /\ objects[1].y < 0
  /\ objects[1].y = Pre.objects[1].y - PreSettings.scrollSpeed

\* C22: in every state canDoubleJump implies isJumping, and a player that
\* is not jumping stands on the ground at rest (y = GROUND_Y, velocityY = 0).
C22_JumpFlagsConsistent ==
  /\ player.canDoubleJump => player.isJumping
  /\ ~player.isJumping => (player.y = GROUND_Y /\ player.velocityY = 0)

\* a player that had used its double jump landed
C22_Witness ==
  /\ Ticked
  /\ Pre.player.isJumping
  /\ ~Pre.player.canDoubleJump
  /\ Pre.player.y < GROUND_Y
  /\ ~player.isJumping
  /\ ~player.canDoubleJump
  /\ player.y = GROUND_Y

\* C23: with the player standing still on the ground, on every tier, an
\* object whose horizontal extent overlaps the player's is never skipped as
\* off screen and is never live at or above the player's feet: while live it
\* is still below the player, and the tick that removes it is a collision.
HOverlaps(obj, p) ==
  /\ p.x < obj.x + OBJECT_WIDTH
  /\ p.x + PLAYER_WIDTH > obj.x

C23_NoTunnelling ==
  /\ \A j \in 1..Len(objects) :
       HOverlaps(objects[j], player) =>
         objects[j].y >= player.y + PLAYER_HEIGHT
  /\ Ticked =>
       \A i \in 1..Len(Pre.objects) :
         HOverlaps(Pre.objects[i], Pre.player) =>
           /\ i \notin PreOff
           /\ (\A j \in 1..Len(objects) : objects[j].id # Pre.objects[i].id) =>
                i \in PreOverlapping(Pre.objects[i].type)

\* an object spawned at the last x that overlaps the standing player was
\* consumed by a collision
C23_Witness ==
  /\ Ticked
  /\ Pre.player = InitialPlayer
  /\ Len(Pre.objects) = 1
  /\ Pre.objects[1].x = 219
  /\ objects = << >>
  /\ PreOff = {}
  /\ score + bananaHits = Pre.score + Pre.bananaHits + 1

\* C24: player y never goes below 0 (the top of the game area), whatever
\* single and double jumps are pressed at whatever ticks.
C24_PlayerBelowTop == player.y >= 0

\* a double jump pressed near the top of the first jump carried the player
\* to its highest point, above y = 240 px
C24_Witness ==
  /\ Ticked
  /\ player.isJumping
  /\ ~player.canDoubleJump
  /\ player.y < 2400
  /\ player.velocityY > 0
  /\ Pre.player.velocityY < 0

\* C25: while frames keep coming, an object that is live in a Playing
\* session is eventually no longer live, or the session is no longer
\* Playing.
LiveIds == {objects[j].id : j \in 1..Len(objects)}

C25_ObjectsEventuallyRemoved ==
  \A id \in 0..MaxDrops :
    (gameState = "playing" /\ id \in LiveIds)
      ~> (gameState # "playing" \/ id \notin LiveIds)

\* the second object of a session, spawned at the left end of the range,
\* was discarded off screen and the session is still Playing
C25_Witness ==
  /\ Ticked
  /\ gameState = "playing"
  /\ Len(Pre.objects) = 1
  /\ Pre.objects[1].id = 1
  /\ Pre.objects[1].x = 0
  /\ PreOff = {1}
  /\ objects = << >>

\* C26: a step that starts and ends in gameover leaves score as it was, so
\* the score shown in gameover is the one the ending tick left; and from the
\* tier choice through Playing and gameover the tier stays the chosen one.
C26_GameOverFrozen ==
  /\ (Pre.gameState = "gameover" /\ gameState = "gameover") =>
       score = Pre.score
  /\ (Pre.gameState \in {"playing", "gameover"}
      /\ gameState \in {"playing", "gameover"}) =>
       difficulty = Pre.difficulty

\* Space was pressed in the game-over menu of a session that had scored,
\* on a tier other than the initial one
C26_Witness ==
  /\ last.op = "keyDownSpace"
  /\ Pre.gameState = "gameover"
  /\ gameState = "gameover"
  /\ Pre.score > 0
  /\ score = Pre.score
  /\ difficulty = "nightmare"
====
